---- MODULE Spec2Model ----
(***************************************************************************)
(* A model of main.py of nixpkgs-update-pypi-releases: the attribute       *)
(* extractor, the Version type, the version resolver, the inventory        *)
(* lookup and the thread-pool batch driven by main().                      *)
(*                                                                         *)
(* Strings are sequences of one-character strings, so that parsing,        *)
(* formatting, substring search and splitting are computed and not         *)
(* assumed.  Version strings range over the characters 0-9 . a ! x, on     *)
(* which PEP 440 parsing is modelled exactly: an optional epoch "N!", a    *)
(* release "N(.N)*", an optional pre-release "[.]a[.][N]"; any other       *)
(* string over these characters is invalid.                                *)
(***************************************************************************)
EXTENDS Integers, Sequences, FiniteSets, TLC

VARIABLES
    resolveCall,  \* one call of _determine_latest_version: arguments and result
    extractCall,  \* one call of _get_unique_value: arguments and result
    packages,     \* main(): the list of package inputs handed to the pool
    inventory,    \* the drv-name file: a sequence of lines
    target,       \* args.target
    taskPc,       \* per package: position of its worker task
    future,       \* per package: the Future of its task (result or exception)
    logged,       \* per package: the message its task logged, "" when none
    stdout,       \* the writes to sys.stdout, in the order they were made
    doneOrder,    \* package indices in the order their futures were set
    results,      \* main(): the list built from p.map's iterator
    mainPc,       \* position of main()
    summary       \* the "Checked N packages, M updated" log record

vars == <<resolveCall, extractCall, packages, inventory, target, taskPc,
          future, logged, stdout, doneOrder, results, mainPc, summary>>

batchVars == <<packages, inventory, target, taskPc, future, logged, stdout,
               doneOrder, results, mainPc, summary>>

---------------------------------------------------------------------------
(* Bounds of the model. *)

\* longest list of known versions handed to the resolver
MaxKnown == 3
\* longest text, in fragments, handed to the attribute extractor
MaxFragments == 3
\* largest number of packages in one batch
MaxPkgs == 2

---------------------------------------------------------------------------
(* Strings. *)

Digits == <<"0", "1", "2", "3", "4", "5", "6", "7", "8", "9">>

IsDigit(c) == \E d \in 1..10 : Digits[d] = c

DigitVal(c) == (CHOOSE d \in 1..10 : Digits[d] = c) - 1

\* int(s[i..j-1]) for a run of digits
RECURSIVE NatOf(_, _, _)
NatOf(s, i, j) ==
    IF j <= i THEN 0 ELSE NatOf(s, i, j - 1) * 10 + DigitVal(s[j - 1])

\* str(n) for a non-negative integer
RECURSIVE StrNat(_)
StrNat(n) ==
    IF n < 10 THEN <<Digits[n + 1]>>
    ELSE StrNat(n \div 10) \o <<Digits[(n % 10) + 1]>>

\* sep.join(parts)
RECURSIVE Join(_, _)
Join(sep, parts) ==
    IF Len(parts) = 0 THEN <<>>
    ELSE IF Len(parts) = 1 THEN parts[1]
    ELSE parts[1] \o sep \o Join(sep, Tail(parts))

\* pat occurs in s at position i
MatchAt(pat, s, i) ==
    /\ i >= 1
    /\ i + Len(pat) - 1 <= Len(s)
    /\ \A k \in 1..Len(pat) : s[i + k - 1] = pat[k]

\* pat in s
Contains(pat, s) == \E i \in 1..(Len(s) + 1) : MatchAt(pat, s, i)

\* s.endswith(suf)
EndsWith(s, suf) ==
    Len(s) >= Len(suf) /\ MatchAt(suf, s, Len(s) - Len(suf) + 1)

---------------------------------------------------------------------------
(* packaging.version.Version, as subclassed by class Version. *)

\* first position at or after i that holds no digit
RECURSIVE DigitsEnd(_, _)
DigitsEnd(s, i) ==
    IF i <= Len(s) /\ IsDigit(s[i]) THEN DigitsEnd(s, i + 1) ELSE i

\* release segment N(.N)* starting at the digit at position i
RECURSIVE ReleaseFrom(_, _, _)
ReleaseFrom(s, i, acc) ==
    LET j == DigitsEnd(s, i)
        acc2 == Append(acc, NatOf(s, i, j))
    IN  IF j + 1 <= Len(s) /\ s[j] = "." /\ IsDigit(s[j + 1])
        THEN ReleaseFrom(s, j + 1, acc2)
        ELSE [rel |-> acc2, next |-> j]

InvalidVersion == [valid |-> FALSE, epoch |-> 0, release |-> <<>>, pre |-> -1, raw |-> <<>>]

\* Version(raw) raises InvalidVersion
Invalid(raw) == [InvalidVersion EXCEPT !.raw = raw]

\* a parsed Version: pre is -1 for a final release, n for the pre-release "a n"
MakeVersion(raw, epoch, release, pre) ==
    [valid |-> TRUE, epoch |-> epoch, release |-> release, pre |-> pre, raw |-> raw]

\* the number of the pre-release starts at k and must run to the end
ParsePreNumber(raw, epoch, release, k) ==
    IF DigitsEnd(raw, k) = Len(raw) + 1
    THEN MakeVersion(raw, epoch, release, NatOf(raw, k, Len(raw) + 1))
    ELSE Invalid(raw)

\* at k: the letter of a pre-release with an optional separator after it, or
\* nothing, and then the release must have ended the string
ParseTail(raw, epoch, r, k) ==
    IF k <= Len(raw) /\ raw[k] = "a"
    THEN ParsePreNumber(raw, epoch, r.rel,
                        IF k + 1 <= Len(raw) /\ raw[k + 1] = "." THEN k + 2 ELSE k + 1)
    ELSE IF r.next = Len(raw) + 1 THEN MakeVersion(raw, epoch, r.rel, -1)
    ELSE Invalid(raw)

\* after the release segment r: an optional separator before a pre-release
ParseAfterRelease(raw, epoch, r) ==
    ParseTail(raw, epoch, r,
              IF r.next <= Len(raw) /\ raw[r.next] = "." THEN r.next + 1 ELSE r.next)

\* the release segment starts at position start
ParseFrom(raw, epoch, start) ==
    IF start <= Len(raw) /\ IsDigit(raw[start])
    THEN ParseAfterRelease(raw, epoch, ReleaseFrom(raw, start, <<>>))
    ELSE Invalid(raw)

\* the leading digits end before e: an epoch if a "!" follows them
ParseEpoch(raw, e) ==
    IF e > 1 /\ e <= Len(raw) /\ raw[e] = "!"
    THEN ParseFrom(raw, NatOf(raw, 1, e), e + 1)
    ELSE ParseFrom(raw, 0, 1)

\* Version(raw)
ParseVersion(raw) == ParseEpoch(raw, DigitsEnd(raw, 1))

\* packaging's comparison key drops the trailing zeros of the release
RECURSIVE StripZeros(_)
StripZeros(rel) ==
    IF Len(rel) > 0 /\ rel[Len(rel)] = 0
    THEN StripZeros(SubSeq(rel, 1, Len(rel) - 1))
    ELSE rel

\* tuple comparison a < b
RECURSIVE TupleLess(_, _, _)
TupleLess(a, b, i) ==
    IF i > Len(a) THEN i <= Len(b)
    ELSE IF i > Len(b) THEN FALSE
    ELSE IF a[i] < b[i] THEN TRUE
    ELSE IF a[i] > b[i] THEN FALSE
    ELSE TupleLess(a, b, i + 1)

\* comparison of the keys (epoch, release without trailing zeros, pre), a
\* final release sorting after every pre-release of the same release
KeyLess(ve, vr, vp, we, wr, wp) ==
    \/ ve < we
    \/ /\ ve = we
       /\ \/ TupleLess(vr, wr, 1)
          \/ /\ vr = wr
             /\ \/ vp >= 0 /\ wp = -1
                \/ vp >= 0 /\ wp >= 0 /\ vp < wp

\* Version.__lt__
VersionLess(v, w) ==
    KeyLess(v.epoch, StripZeros(v.release), v.pre, w.epoch, StripZeros(w.release), w.pre)

\* Version.__eq__
VersionEq(v, w) == ~VersionLess(v, w) /\ ~VersionLess(w, v)

\* Version.__le__
VersionLeq(v, w) == VersionLess(v, w) \/ VersionEq(v, w)

\* Version.is_prerelease
IsPrerelease(v) == v.pre >= 0

\* Version.__getitem__ with the slice [0:index]
ReleasePrefix(v, index) ==
    SubSeq(v.release, 1, IF index < Len(v.release) THEN index ELSE Len(v.release))

---------------------------------------------------------------------------
(* Results of calls: a returned value or a raised exception. *)

Return(v) == [kind |-> "return", value |-> v, exc |-> "", msg |-> ""]

Raise(e, m) == [kind |-> "raise", value |-> <<>>, exc |-> e, msg |-> m]

NoResult == [kind |-> "none", value |-> <<>>, exc |-> "", msg |-> ""]

\* the exception classes that "except ValueError" catches
IsValueError(e) == e \in {"ValueError", "InvalidVersion"}

---------------------------------------------------------------------------
(* _determine_latest_version *)

SEMVER == [major |-> 0, minor |-> 1, patch |-> 2]

Targets == DOMAIN SEMVER

\* _parse_versions: the Version of every string that parses, in order
RECURSIVE _parse_versions(_)
_parse_versions(versions) ==
    IF Len(versions) = 0 THEN <<>>
    ELSE LET v == ParseVersion(Head(versions))
         IN  (IF v.valid THEN <<v>> ELSE <<>>) \o _parse_versions(Tail(versions))

\* str(Version): the normalised text "[N!]N(.N)*[aN]"
VersionStr(v) ==
    (IF v.epoch > 0 THEN StrNat(v.epoch) \o <<"!">> ELSE <<>>)
    \o Join(<<".">>, [i \in 1..Len(v.release) |-> StrNat(v.release[i])])
    \o (IF v.pre >= 0 THEN <<"a">> \o StrNat(v.pre) ELSE <<>>)

\* a ceiling that is the prefix itself, its last element not incremented
IncrementLast_Forgotten(prefix) == prefix

\* ceiling[-1] += 1 on a non-empty list
IncrementLast(prefix) ==
    [prefix EXCEPT ![Len(prefix)] = prefix[Len(prefix)] + 1]

\* Version(".".join(map(str, ceiling)))
CeilingVersion(bumped) ==
    ParseVersion(Join(<<".">>, [i \in 1..Len(bumped) |-> StrNat(bumped[i])]))

\* lines 139-143 on the prefix: None (here InvalidVersion) when it is empty
CeilingOf(prefix) ==
    IF Len(prefix) = 0 THEN InvalidVersion ELSE CeilingVersion(IncrementLast(prefix))

\* lines 138-143
Ceiling(current, index) == CeilingOf(ReleasePrefix(current, index))

\* a pre-release filter that lets everything through
FilterPrereleases_KeepAll(vs) == vs

\* SpecifierSet(prereleases=PRERELEASES).filter with PRERELEASES = False
RECURSIVE FilterPrereleases(_)
FilterPrereleases(vs) ==
    IF Len(vs) = 0 THEN <<>>
    ELSE (IF IsPrerelease(Head(vs)) THEN <<>> ELSE <<Head(vs)>>)
         \o FilterPrereleases(Tail(vs))

\* Specifier "<spec".contains(v): v < spec, and v is no pre-release
SpecLessThan(v, spec) ==
    /\ VersionLess(v, spec)
    /\ ~IsPrerelease(v)

\* SpecifierSet(f"<{ceiling}").filter
RECURSIVE FilterBelow(_, _)
FilterBelow(vs, spec) ==
    IF Len(vs) = 0 THEN <<>>
    ELSE (IF SpecLessThan(Head(vs), spec) THEN <<Head(vs)>> ELSE <<>>)
         \o FilterBelow(Tail(vs), spec)

\* insert v after every element that is not greater than it
RECURSIVE InsertSorted(_, _)
InsertSorted(sorted, v) ==
    IF Len(sorted) = 0 THEN <<v>>
    ELSE IF VersionLess(v, Head(sorted)) THEN <<v>> \o sorted
    ELSE <<Head(sorted)>> \o InsertSorted(Tail(sorted), v)

\* sorted(versions): stable
RECURSIVE Sorted(_)
Sorted(vs) ==
    IF Len(vs) = 0 THEN <<>>
    ELSE InsertSorted(Sorted(SubSeq(vs, 1, Len(vs) - 1)), vs[Len(vs)])

\* max(versions) of a non-empty list: the first of the greatest elements
RECURSIVE MaxFrom(_, _, _)
MaxFrom(vs, i, best) ==
    IF i > Len(vs) THEN best
    ELSE MaxFrom(vs, i + 1, IF VersionLess(best, vs[i]) THEN vs[i] ELSE best)

\* lines 148-149: the ceiling is formatted into the specifier and parsed back
BelowCeiling(final, ceiling) ==
    IF ceiling.valid THEN FilterBelow(final, ParseVersion(VersionStr(ceiling))) ELSE final

\* line 151: max(sorted(versions)).raw_version; max of nothing is a ValueError
LatestOf(ordered) ==
    IF Len(ordered) = 0 THEN Raise("ValueError", "max() arg is an empty sequence")
    ELSE Return(MaxFrom(ordered, 2, ordered[1]).raw)

\* lines 127-151 for a parsed current version
ResolveFrom(current, tgt, versions) ==
    IF ~current.valid THEN Raise("InvalidVersion", "invalid version")
    ELSE LatestOf(Sorted(BelowCeiling(FilterPrereleases(_parse_versions(versions)),
                                      Ceiling(current, SEMVER[tgt]))))

_determine_latest_version(current_version, tgt, versions) ==
    ResolveFrom(ParseVersion(current_version), tgt, versions)

---------------------------------------------------------------------------
(* Version strings the model draws its inputs from. *)

V_2_5_3 == <<"2", ".", "5", ".", "3">>
V_2_5_4 == <<"2", ".", "5", ".", "4">>
V_2_5_10 == <<"2", ".", "5", ".", "1", "0">>
V_2_6_0 == <<"2", ".", "6", ".", "0">>
V_2_6 == <<"2", ".", "6">>
V_3_0_0 == <<"3", ".", "0", ".", "0">>
V_3_0_0a1 == <<"3", ".", "0", ".", "0", "a", "1">>
V_2 == <<"2">>
V_E1_0_1 == <<"1", "!", "0", ".", "1">>
V_Junk == <<"2", ".", "x">>

KnownUniverse ==
    {V_2_5_3, V_2_5_4, V_2_5_10, V_2_6_0, V_2_6, V_3_0_0, V_3_0_0a1, V_2,
     V_E1_0_1, V_Junk}

CurrentUniverse == {V_2_5_3, V_2_6, V_2, V_3_0_0a1, V_E1_0_1, V_Junk}

\* the lists of distinct strings of S of length at most n (dictionary keys)
DistinctSeqs(S, n) ==
    UNION {{s \in [1..k -> S] : \A i, j \in 1..k : i # j => s[i] # s[j]} : k \in 0..n}

---------------------------------------------------------------------------
(* The resolver on its own: one call on inputs drawn from the universes. *)

IdleResolve ==
    [current |-> <<>>, target |-> "major", versions |-> <<>>, done |-> FALSE, ret |-> NoResult]

IdleExtract ==
    [attribute |-> <<>>, text |-> <<>>, done |-> FALSE, ret |-> NoResult]

BatchIdle ==
    /\ packages = <<>>
    /\ inventory = <<>>
    /\ target = "major"
    /\ taskPc = <<>>
    /\ future = <<>>
    /\ logged = <<>>
    /\ stdout = <<>>
    /\ doneOrder = <<>>
    /\ results = <<>>
    /\ mainPc = "done"
    /\ summary = <<>>

InitResolver ==
    /\ resolveCall \in
         {[current |-> c, target |-> t, versions |-> vs, done |-> FALSE, ret |-> NoResult] :
            c \in CurrentUniverse, t \in Targets, vs \in DistinctSeqs(KnownUniverse, MaxKnown)}
    /\ extractCall = IdleExtract
    /\ BatchIdle

Resolve ==
    /\ ~resolveCall.done
    /\ resolveCall' =
         [resolveCall EXCEPT
            !.done = TRUE,
            !.ret = _determine_latest_version(resolveCall.current, resolveCall.target,
                                              resolveCall.versions)]
    /\ UNCHANGED <<extractCall, batchVars>>

NextResolver == Resolve

SpecResolver == InitResolver /\ [][NextResolver]_vars

---------------------------------------------------------------------------
(* Claims about the resolver. *)

\* the i-th release component, a missing trailing component counting as 0
Pad(rel, i) == IF i <= Len(rel) THEN rel[i] ELSE 0

LongerLen(a, b) == IF Len(a) < Len(b) THEN Len(b) ELSE Len(a)

\* a release vector below another, component-wise with zero padding
PadLess(a, b) ==
    \E k \in 1..LongerLen(a, b) :
        /\ \A j \in 1..(k - 1) : Pad(a, j) = Pad(b, j)
        /\ Pad(a, k) < Pad(b, k)

\* final versions compared by epoch, then padded release
FinalLess(v, w) ==
    \/ v.epoch < w.epoch
    \/ v.epoch = w.epoch /\ PadLess(v.release, w.release)

\* the exclusive ceiling the claim describes, as a release vector; <<>> for none
ClaimedCeiling(current, tgt) ==
    LET n == CASE tgt = "major" -> 0 [] tgt = "minor" -> 1 [] tgt = "patch" -> 2
        m == IF n < Len(current.release) THEN n ELSE Len(current.release)
    IN  [i \in 1..m |-> IF i = m THEN current.release[i] + 1 ELSE current.release[i]]

\* the known versions the claim calls eligible
Eligible(call) ==
    LET cur == ParseVersion(call.current)
        ceil == ClaimedCeiling(cur, call.target)
    IN  {i \in 1..Len(call.versions) :
           LET v == ParseVersion(call.versions[i])
           IN  /\ v.valid
               /\ v.pre = -1
               /\ ceil # <<>> => (v.epoch = 0 /\ PadLess(v.release, ceil))}

Known(call) == {call.versions[i] : i \in 1..Len(call.versions)}

\* C4: for a valid current version, _determine_latest_version returns a
\* greatest element of the parsable, non-prerelease known versions strictly
\* below the ceiling (current.release[0:index] with its last element
\* incremented; no ceiling for major), and raises when there is none; 2.5.3
\* with minor over {2.5.4, 2.6.0, 3.0.0} gives 2.6.0 and with patch over
\* {2.5.4, 2.5.10, 2.6.0} gives 2.5.10.
C4_ResolverCeiling ==
    (resolveCall.done /\ ParseVersion(resolveCall.current).valid) =>
        /\ IF Eligible(resolveCall) = {}
           THEN resolveCall.ret.kind = "raise"
           ELSE /\ resolveCall.ret.kind = "return"
                /\ \E i \in Eligible(resolveCall) :
                      resolveCall.versions[i] = resolveCall.ret.value
                /\ \A i \in Eligible(resolveCall) :
                      ~FinalLess(ParseVersion(resolveCall.ret.value),
                                 ParseVersion(resolveCall.versions[i]))
        /\ (/\ resolveCall.current = V_2_5_3
            /\ resolveCall.target = "minor"
            /\ Known(resolveCall) = {V_2_5_4, V_2_6_0, V_3_0_0})
              => resolveCall.ret = Return(V_2_6_0)
        /\ (/\ resolveCall.current = V_2_5_3
            /\ resolveCall.target = "patch"
            /\ Known(resolveCall) = {V_2_5_4, V_2_5_10, V_2_6_0})
              => resolveCall.ret = Return(V_2_5_10)

\* the patch example of C4 has been resolved
C4_Witness ==
    /\ resolveCall.done
    /\ resolveCall.current = V_2_5_3
    /\ resolveCall.target = "patch"
    /\ Known(resolveCall) = {V_2_5_4, V_2_5_10, V_2_6_0}
    /\ resolveCall.ret = Return(V_2_5_10)

\* C5 as stated: on a list holding only the current version the resolver
\* raises, whatever the target.
C5_OnlyCurrentRaises ==
    (resolveCall.done /\ resolveCall.versions = <<resolveCall.current>>) =>
        resolveCall.ret.kind = "raise"

\* C5 amended: on a list holding only the current version the resolver
\* returns that version when it is a final release that has no epoch or is
\* resolved for major, and raises exactly when the current version does not
\* parse, is a pre-release, or carries an epoch under minor or patch.
C5_OnlyCurrentReturnsCurrent ==
    (resolveCall.done /\ resolveCall.versions = <<resolveCall.current>>) =>
        LET cur == ParseVersion(resolveCall.current)
        IN  IF cur.valid /\ cur.pre = -1 /\ (cur.epoch = 0 \/ resolveCall.target = "major")
            THEN resolveCall.ret = Return(resolveCall.current)
            ELSE resolveCall.ret.kind = "raise"

\* a final current version resolved for patch against itself alone
C5_Witness ==
    /\ resolveCall.done
    /\ resolveCall.versions = <<resolveCall.current>>
    /\ resolveCall.current = V_2_5_3
    /\ resolveCall.target = "patch"
    /\ resolveCall.ret = Return(V_2_5_3)

---------------------------------------------------------------------------
(* _get_values and _get_unique_value: the regular expression               *)
(* attribute, white space, =, white space, a quoted group of any           *)
(* characters but a line break, a semicolon;                               *)
(* searched with findall.                                                  *)

A_pname == <<"p", "n", "a", "m", "e">>
A_version == <<"v", "e", "r", "s", "i", "o", "n">>

\* the white space of Unicode, which is what \s of a str pattern matches and
\* what str.rstrip() removes: space, tab, line feed, carriage return, form
\* feed, and, written as the characters themselves, U+000B, U+001C to U+001F,
\* U+0085, U+00A0 and U+1680.  The spaces from U+2000 on (U+2000 to U+200A,
\* U+2028, U+2029, U+202F, U+205F, U+3000) cannot be written in a string of
\* the model, so no text of the model holds them.
WhiteSpace ==
    {" ", "\t", "\n", "\r", "\f",
     "", "", "", "", "", "", " ", " "}

\* \s, and str.isspace() of one character
IsSpace(c) == c \in WhiteSpace

\* first position at or after i that holds no white space
RECURSIVE SpacesEnd(_, _)
SpacesEnd(s, i) ==
    IF i <= Len(s) /\ IsSpace(s[i]) THEN SpacesEnd(s, i + 1) ELSE i

\* first position at or after i that holds a line break, Len(s) + 1 if none
RECURSIVE LineEnd(_, _)
LineEnd(s, i) ==
    IF i <= Len(s) /\ s[i] # "\n" THEN LineEnd(s, i + 1) ELSE i

\* the positions q in from..(to - 1) where the closing quote and semicolon match
ClosingAt(s, from, to) ==
    {q \in from..(to - 2) : s[q] = "\"" /\ s[q + 1] = ";"}

GreatestOf(S) == CHOOSE x \in S : \A y \in S : y <= x

LeastOf(S) == CHOOSE x \in S : \A y \in S : x <= y

\* the group and the end of a match whose (.*) starts at from: (.*) is greedy
\* and stays on one line, so it runs to the last quote-semicolon pair
MatchClosing(s, from, closings, i) ==
    IF closings # {}
    THEN [ok |-> TRUE,
          value |-> SubSeq(s, from, GreatestOf(closings) - 1),
          next |-> GreatestOf(closings) + 2]
    ELSE [ok |-> FALSE, value |-> <<>>, next |-> i + 1]

\* the opening quote is expected at m, after the white space that follows "="
MatchQuote(s, k, m, i) ==
    IF m > k + 1 /\ m <= Len(s) /\ s[m] = "\""
    THEN MatchClosing(s, m + 1, ClosingAt(s, m + 1, LineEnd(s, m + 1)), i)
    ELSE [ok |-> FALSE, value |-> <<>>, next |-> i + 1]

\* "=" is expected at k, after the white space that follows the attribute
MatchEquals(s, j, k, i) ==
    IF k > j /\ k <= Len(s) /\ s[k] = "="
    THEN MatchQuote(s, k, SpacesEnd(s, k + 1), i)
    ELSE [ok |-> FALSE, value |-> <<>>, next |-> i + 1]

\* the match of the expression that starts at position i, if there is one
RegexMatchAt(attribute, s, i) ==
    IF MatchAt(attribute, s, i)
    THEN MatchEquals(s, i + Len(attribute), SpacesEnd(s, i + Len(attribute)), i)
    ELSE [ok |-> FALSE, value |-> <<>>, next |-> i + 1]

\* regex.findall(text) from position i on: the groups of the successive
\* non-overlapping leftmost matches
RECURSIVE FindAllFrom(_, _, _)
FindAllFrom(attribute, s, i) ==
    IF i > Len(s) THEN <<>>
    ELSE IF RegexMatchAt(attribute, s, i).ok
    THEN <<RegexMatchAt(attribute, s, i).value>>
         \o FindAllFrom(attribute, s, RegexMatchAt(attribute, s, i).next)
    ELSE FindAllFrom(attribute, s, i + 1)

_get_values(attribute, text) == FindAllFrom(attribute, text, 1)

\* lines 84-90 on the list of matches
UniqueOf(values) ==
    IF Len(values) > 1 THEN Raise("ValueError", "found too many values")
    ELSE IF Len(values) = 1 THEN Return(values[1])
    ELSE Raise("ValueError", "no value found")

_get_unique_value(attribute, text) == UniqueOf(_get_values(attribute, text))

---------------------------------------------------------------------------
(* The extractor on its own: one call on a text made of fragments. *)

T_PnameFoo == <<"p", "n", "a", "m", "e", " ", "=", " ", "\"", "f", "o", "o", "\"", ";">>
T_PnameBar == <<"p", "n", "a", "m", "e", " ", "=", " ", "\"", "b", "a", "r", "\"", ";">>
T_Other == <<"o", "t", "h", "e", "r", " ", "=", " ", "\"", "x", "\"", ";">>
T_Version == <<"v", "e", "r", "s", "i", "o", "n", " ", "=", " ", "\"", "1", ".", "0", "\"", ";">>
T_NoSpace == <<"p", "n", "a", "m", "e", "=", "\"", "f", "o", "o", "\"", ";">>
T_Open == <<"p", "n", "a", "m", "e", " ", "=", " ", "\"", "f", "o", "o", "\"">>
T_Feed == <<"p", "n", "a", "m", "e", "\r", "=", "\f", "\"", "f", "o", "o", "\"", ";">>
T_Space == <<" ">>
T_Newline == <<"\n">>

Fragments ==
    {T_PnameFoo, T_PnameBar, T_Other, T_Version, T_NoSpace, T_Open, T_Feed, T_Space,
     T_Newline}

RECURSIVE Concat(_)
Concat(parts) == IF Len(parts) = 0 THEN <<>> ELSE Head(parts) \o Concat(Tail(parts))

Texts == {Concat(fs) : fs \in UNION {[1..k -> Fragments] : k \in 0..MaxFragments}}

InitExtractor ==
    /\ extractCall \in
         {[attribute |-> a, text |-> t, done |-> FALSE, ret |-> NoResult] :
            a \in {A_pname, A_version}, t \in Texts}
    /\ resolveCall = IdleResolve
    /\ BatchIdle

Extract ==
    /\ ~extractCall.done
    /\ extractCall' =
         [extractCall EXCEPT
            !.done = TRUE,
            !.ret = _get_unique_value(extractCall.attribute, extractCall.text)]
    /\ UNCHANGED <<resolveCall, batchVars>>

NextExtractor == Extract

SpecExtractor == InitExtractor /\ [][NextExtractor]_vars

\* the number of definitions  attribute = "value";  in s from position i on,
\* read left to right, each value running to the first closing
\* quote-semicolon pair of its line
RECURSIVE DefinitionsFrom(_, _, _)
DefinitionsFrom(attribute, s, i) ==
    IF i > Len(s) THEN 0
    ELSE LET j == i + Len(attribute)
             k == SpacesEnd(s, j)
             m == SpacesEnd(s, k + 1)
             closings == ClosingAt(s, m + 1, LineEnd(s, m + 1))
         IN  IF /\ MatchAt(attribute, s, i)
                /\ k > j /\ k <= Len(s) /\ s[k] = "="
                /\ m > k + 1 /\ m <= Len(s) /\ s[m] = "\""
                /\ closings # {}
             THEN 1 + DefinitionsFrom(attribute, s, LeastOf(closings) + 2)
             ELSE DefinitionsFrom(attribute, s, i + 1)

\* C8 as stated: _get_unique_value returns a value only for a text with
\* exactly one definition of the attribute, raises the ambiguity error when
\* the text defines it more than once, two definitions on one line included,
\* and raises the missing error when it defines it nowhere.
C8_AttributeUniqueness ==
    extractCall.done =>
        LET n == DefinitionsFrom(extractCall.attribute, extractCall.text, 1)
        IN  /\ n = 1 => extractCall.ret.kind = "return"
            /\ n > 1 => extractCall.ret = Raise("ValueError", "found too many values")
            /\ n = 0 => extractCall.ret = Raise("ValueError", "no value found")

---------------------------------------------------------------------------
(* _fetch_page and _check_pypi.  The registry's answer to a task's GET is  *)
(* part of the package input: status "ok", "error" (a status other than    *)
(* 200) or "unreachable" (requests raises ConnectionError), and for "ok"   *)
(* the JSON body: whether it has a releases mapping, and that mapping's    *)
(* keys in order.                                                          *)

_fetch_page(response) ==
    IF response.status = "unreachable" THEN Raise("ConnectionError", "connection failed")
    ELSE IF response.status = "ok" THEN Return(response)
    ELSE Raise("ValueError", "request failed")

\* lines 159-166 on the page fetched
LatestIn(json, current_version, tgt) ==
    IF json.kind = "raise" THEN json
    ELSE IF ~json.value.hasReleases THEN Raise("KeyError", "releases")
    ELSE _determine_latest_version(current_version, tgt, json.value.releases)

_check_pypi(response, current_version, tgt) ==
    LatestIn(_fetch_page(response), current_version, tgt)

---------------------------------------------------------------------------
(* The inventory lookup of _print_new_version: the shell pipeline          *)
(*   cat -- drv_name_path | grep pname-version | grep -v python2 | head -1 *)
(* and the removal of the last dash-separated segment.                     *)

PYTHON2 == <<"p", "y", "t", "h", "o", "n", "2">>

PYPI_PACKAGE_URL == <<"h", "t", "t", "p", "s", ":", "/", "/", "p", "y", "p", "i", ".", "o", "r", "g", "/", "p", "r", "o", "j", "e", "c", "t">>

\* grep with pat as a basic regular expression over letters, digits, "-",
\* "!" and ".": a "." in pat matches any character, the rest match themselves
GrepMatchAt(pat, line, i) ==
    /\ i + Len(pat) - 1 <= Len(line)
    /\ \A k \in 1..Len(pat) : pat[k] = "." \/ line[i + k - 1] = pat[k]

Grep(pat, line) == \E i \in 1..(Len(line) + 1) : GrepMatchAt(pat, line, i)

\* the output of the pipeline: the first line that passes both greps, with
\* its line feed, <<>> when none does
RECURSIVE FirstMatch(_, _, _)
FirstMatch(lines, pat, i) ==
    IF i > Len(lines) THEN <<>>
    ELSE IF Grep(pat, lines[i]) /\ ~Contains(PYTHON2, lines[i])
    THEN lines[i] \o <<"\n">>
    ELSE FirstMatch(lines, pat, i + 1)

\* str.rstrip()
RECURSIVE RStrip(_)
RStrip(s) ==
    IF Len(s) > 0 /\ IsSpace(s[Len(s)]) THEN RStrip(SubSeq(s, 1, Len(s) - 1)) ELSE s

\* s up to the last of the positions in dashes, <<>> when there is none
CutAt(s, dashes) ==
    IF dashes = {} THEN <<>> ELSE SubSeq(s, 1, GreatestOf(dashes) - 1)

\* "-".join(s.split("-")[:-1]): s up to its last dash, <<>> without a dash
DropLastSegment(s) == CutAt(s, {i \in 1..Len(s) : s[i] = "-"})

\* lines 191-198: drv_name
DrvName(lines, pname, version) ==
    DropLastSegment(RStrip(FirstMatch(lines, pname \o <<"-">> \o version, 1)))

---------------------------------------------------------------------------
(* _print_new_version and _update, cut at the two blocking calls (the GET  *)
(* and the shell pipeline) into three steps.  A step ends the body of      *)
(* _update (pc "finished": ret is the value it returns or the exception    *)
(* that leaves it, level and msg the record it logged, line the text it    *)
(* handed to print) or hands over to the next step.                        *)

DEFAULT_NIX == <<"d", "e", "f", "a", "u", "l", "t", ".", "n", "i", "x">>

DOT_NIX == <<".", "n", "i", "x">>

\* os.path.join(path, "default.nix") for a directory
ResolvedPath(pkg) ==
    IF pkg.isdir THEN pkg.path \o <<"/">> \o DEFAULT_NIX ELSE pkg.path

Step(pc, ret, level, msg, pname, version, new_version, line) ==
    [pc |-> pc, ret |-> ret, level |-> level, msg |-> msg, pname |-> pname,
     version |-> version, new_version |-> new_version, line |-> line]

\* lines 221-226: a ValueError raised by _print_new_version is logged and
\* becomes False; any other exception leaves _update
ExceptValueError(raised, pname, version, new_version) ==
    IF IsValueError(raised.exc)
    THEN Step("finished", Return(FALSE), "warning", raised.msg, pname, version, new_version, <<>>)
    ELSE Step("finished", raised, "", "", pname, version, new_version, <<>>)

\* line 178 on the result of the extraction of version
WithVersion(pname, version) ==
    IF version.kind = "raise" THEN ExceptValueError(version, pname, <<>>, <<>>)
    ELSE Step("fetch", NoResult, "", "", pname, version.value, <<>>, <<>>)

\* lines 175-178 on the result of the extraction of pname
WithPname(text, pname) ==
    IF pname.kind = "raise" THEN ExceptValueError(pname, <<>>, <<>>, <<>>)
    ELSE WithVersion(pname.value, _get_unique_value(A_version, text))

\* lines 208-219 and 171-178: up to the call of _check_pypi
UpdateStart(pkg) ==
    IF ~pkg.isfile
    THEN Step("finished", Return(FALSE), "info", "does not exist", <<>>, <<>>, <<>>, <<>>)
    ELSE IF ~EndsWith(ResolvedPath(pkg), DOT_NIX)
    THEN Step("finished", Return(FALSE), "info", "does not end with .nix", <<>>, <<>>, <<>>, <<>>)
    ELSE IF ~pkg.readable
    THEN ExceptValueError(Raise("PermissionError", "permission denied"), <<>>, <<>>, <<>>)
    ELSE WithPname(pkg.text, _get_unique_value(A_pname, pkg.text))

\* a comparison that lets a resolved version equal to the declared one through
IsDowngrade_Strict(new_version, version) ==
    VersionLess(ParseVersion(new_version), ParseVersion(version))

\* line 187: Version(new_version) <= Version(version)
IsDowngrade(new_version, version) ==
    VersionLeq(ParseVersion(new_version), ParseVersion(version))

\* lines 184-188 on the result of _check_pypi
Compare(pname, version, checked) ==
    IF checked.kind = "raise" THEN ExceptValueError(checked, pname, version, <<>>)
    ELSE IF checked.value = version
    THEN Step("finished", Return(TRUE), "info", "already at latest version",
              pname, version, checked.value, <<>>)
    ELSE IF IsDowngrade(checked.value, version)
    THEN ExceptValueError(Raise("ValueError", "downgrade"), pname, version, checked.value)
    ELSE Step("lookup", NoResult, "", "", pname, version, checked.value, <<>>)

\* lines 180-188: _check_pypi and the comparison of its result
UpdateFetch(pkg, tgt, pname, version) ==
    Compare(pname, version, _check_pypi(pkg.response, version, tgt))

\* the f-string of line 203
ReportText(drv_name, version, new_version, package_url) ==
    Join(<<" ">>, <<drv_name, version, new_version, package_url>>)

\* lines 182 and 200-203 on the drv_name found
Report(pname, version, new_version, drv_name) ==
    IF Len(drv_name) = 0
    THEN Step("finished", Return(TRUE), "", "", pname, version, new_version, <<>>)
    ELSE Step("finished", Return(TRUE), "", "", pname, version, new_version,
              ReportText(drv_name, version, new_version,
                         PYPI_PACKAGE_URL \o <<"/">> \o pname \o <<"/">>))

\* lines 190-203: the lookup and the report line
UpdateReport(lines, pname, version, new_version) ==
    Report(pname, version, new_version, DrvName(lines, pname, version))

\* _update continued after its second step
AfterFetch(b, lines) ==
    IF b.pc = "finished" THEN b
    ELSE UpdateReport(lines, b.pname, b.version, b.new_version)

\* _update continued after its first step
AfterStart(a, pkg, tgt, lines) ==
    IF a.pc = "finished" THEN a
    ELSE AfterFetch(UpdateFetch(pkg, tgt, a.pname, a.version), lines)

\* _update run from start to end: its last step
_update(pkg, tgt, lines) == AfterStart(UpdateStart(pkg), pkg, tgt, lines)

---------------------------------------------------------------------------
(* The package inputs and inventories the batch is drawn from.  Names are  *)
(* letters and versions are over the version alphabet, so the shell reads  *)
(* the grep pattern as one word.                                           *)

N_foo == <<"f", "o", "o">>
N_bar == <<"b", "a", "r">>
N_baz == <<"b", "a", "z">>
V_1_0 == <<"1", ".", "0">>
V_1_1 == <<"1", ".", "1">>
V_1_0_0 == <<"1", ".", "0", ".", "0">>
V_1_0_1 == <<"1", ".", "0", ".", "1">>
V_2_0 == <<"2", ".", "0">>
V_2_0a1 == <<"2", ".", "0", "a", "1">>
Path_foo_nix == <<"f", "o", "o", ".", "n", "i", "x">>
Path_bar == <<"b", "a", "r">>
Path_foo_txt == <<"f", "o", "o", ".", "t", "x", "t">>
L_py2_foo == <<"p", "y", "t", "h", "o", "n", "2", ".", "7", "-", "f", "o", "o", "-", "1", ".", "0">>
L_py3_foo == <<"p", "y", "t", "h", "o", "n", "3", ".", "8", "-", "f", "o", "o", "-", "1", ".", "0">>
L_bar == <<"b", "a", "r", "-", "1", ".", "0">>
L_foo_1_0_5 == <<"f", "o", "o", "-", "1", ".", "0", ".", "5">>
D_pname == <<"p", "n", "a", "m", "e", " ", "=", " ", "\"">>
D_version == <<"\"", ";", "\n", "v", "e", "r", "s", "i", "o", "n", " ", "=", " ", "\"">>
D_end == <<"\"", ";", "\n">>

\* the text of a declaration file
Decl(pname, version) == D_pname \o pname \o D_version \o version \o D_end

Ok(releases) == [status |-> "ok", hasReleases |-> TRUE, releases |-> releases]

File(path, text, response) ==
    [path |-> path, isdir |-> FALSE, isfile |-> TRUE, readable |-> TRUE,
     text |-> text, response |-> response]

\* foo 1.0, the registry knows 1.0 and 1.1
P_FooUpdate == File(Path_foo_nix, Decl(N_foo, V_1_0), Ok(<<V_1_0, V_1_1>>))
\* a directory holding default.nix: bar 1.0, the registry knows 1.0.1 and 2.0
P_BarUpdate ==
    [File(Path_bar, Decl(N_bar, V_1_0), Ok(<<V_1_0_1, V_2_0>>)) EXCEPT !.isdir = TRUE]
\* foo 1.1, already the latest
P_FooLatest == File(Path_foo_nix, Decl(N_foo, V_1_1), Ok(<<V_1_0, V_1_1>>))
\* foo 1.0, the registry knows the same release written 1.0.0
P_FooPadded == File(Path_foo_nix, Decl(N_foo, V_1_0), Ok(<<V_1_0_0>>))
\* foo 2.0, the registry knows only older releases
P_FooOlder == File(Path_foo_nix, Decl(N_foo, V_2_0), Ok(<<V_1_0, V_1_1>>))
\* the registry answers 200 with a body that has no releases mapping
P_NoReleases ==
    File(Path_foo_nix, Decl(N_foo, V_1_0),
         [status |-> "ok", hasReleases |-> FALSE, releases |-> <<>>])
\* the registry answers with an error status
P_HttpError ==
    File(Path_foo_nix, Decl(N_foo, V_1_0),
         [status |-> "error", hasReleases |-> FALSE, releases |-> <<>>])
\* the registry cannot be reached
P_Unreachable ==
    File(Path_foo_nix, Decl(N_foo, V_1_0),
         [status |-> "unreachable", hasReleases |-> FALSE, releases |-> <<>>])
\* no file at the path
P_Missing == [File(Path_foo_nix, <<>>, Ok(<<>>)) EXCEPT !.isfile = FALSE]
\* a file that is no Nix expression
P_NotNix == File(Path_foo_txt, Decl(N_foo, V_1_0), Ok(<<V_1_0, V_1_1>>))
\* a file that cannot be opened
P_Unreadable == [File(Path_foo_nix, <<>>, Ok(<<>>)) EXCEPT !.readable = FALSE]
\* pname defined on two lines
P_Ambiguous ==
    File(Path_foo_nix, Decl(N_foo, V_1_0) \o Decl(N_bar, V_1_0), Ok(<<V_1_0, V_1_1>>))
\* a declared version that does not parse
P_BadVersion == File(Path_foo_nix, Decl(N_foo, V_Junk), Ok(<<V_1_0, V_1_1>>))
\* the registry knows only a pre-release
P_OnlyPre == File(Path_foo_nix, Decl(N_foo, V_1_0), Ok(<<V_2_0a1>>))
\* baz 1.0 has an update and no line in either inventory
P_NoDrv == File(Path_foo_nix, Decl(N_baz, V_1_0), Ok(<<V_1_0, V_1_1>>))

Catalogue ==
    {P_FooUpdate, P_BarUpdate, P_FooLatest, P_FooPadded, P_FooOlder, P_NoReleases,
     P_HttpError, P_Unreachable, P_Missing, P_NotNix, P_Unreadable, P_Ambiguous,
     P_BadVersion, P_OnlyPre, P_NoDrv}

Inventories ==
    {<<L_py2_foo, L_py3_foo, L_bar>>, <<L_foo_1_0_5, L_bar>>}

---------------------------------------------------------------------------
(* main(): the pool, its tasks and the collection of their results.        *)
(*                                                                         *)
(* A task is a call of _update in a worker thread.  What it does to the    *)
(* state other threads see happens in separate steps: it logs a record     *)
(* (lines 185, 213, 218, 225) or writes to sys.stdout, and only after      *)
(* _update has returned does the worker set the task's Future.  print      *)
(* (line 203) makes two writes, the text and then the line feed, and       *)
(* other threads run in between.                                           *)

N == Len(packages)

PendingTask ==
    [pc |-> "pending", pname |-> <<>>, version |-> <<>>, new_version |-> <<>>,
     ret |-> NoResult]

Init ==
    /\ packages \in UNION {[1..k -> Catalogue] : k \in 1..MaxPkgs}
    /\ inventory \in Inventories
    /\ target \in Targets
    /\ taskPc = [i \in 1..Len(packages) |-> PendingTask]
    /\ future = [i \in 1..Len(packages) |-> NoResult]
    /\ logged = [i \in 1..Len(packages) |-> [level |-> "", msg |-> ""]]
    /\ stdout = <<>>
    /\ doneOrder = <<>>
    /\ results = <<>>
    /\ mainPc = "map"
    /\ summary = <<>>
    /\ resolveCall = IdleResolve
    /\ extractCall = IdleExtract

\* where task i stands after the step st: at the next blocking call, between
\* the two writes of print, or about to leave _update
PcAfter(st) ==
    IF st.pc # "finished" THEN st.pc
    ELSE IF Len(st.line) > 0 THEN "newline"
    ELSE "returning"

\* the effect of one step of task i on the shared state: the record it logs
\* or the text print writes; the Future is not set yet
ApplyStep(i, st) ==
    /\ taskPc' = [taskPc EXCEPT ![i] =
                    [pc |-> PcAfter(st), pname |-> st.pname, version |-> st.version,
                     new_version |-> st.new_version, ret |-> st.ret]]
    /\ logged' = IF st.level # ""
                 THEN [logged EXCEPT ![i] = [level |-> st.level, msg |-> st.msg]]
                 ELSE logged
    /\ stdout' = IF Len(st.line) > 0
                 THEN Append(stdout, [pkg |-> i, text |-> st.line])
                 ELSE stdout
    /\ UNCHANGED <<packages, inventory, target, future, doneOrder, results, mainPc,
                   summary, resolveCall, extractCall>>

\* a worker that took task i off the queue sets its Future running; from
\* here on the task cannot be cancelled.  Workers take the tasks off the
\* queue in order, but a worker can be delayed between taking its task and
\* setting it running, so the tasks are set running in any order.
TaskPickUp(i) ==
    /\ taskPc[i].pc = "pending"
    /\ taskPc' = [taskPc EXCEPT ![i].pc = "running"]
    /\ UNCHANGED <<packages, inventory, target, future, logged, stdout, doneOrder,
                   results, mainPc, summary, resolveCall, extractCall>>

\* task i runs _update up to the GET
TaskStart(i) ==
    /\ taskPc[i].pc = "running"
    /\ ApplyStep(i, UpdateStart(packages[i]))

\* the registry answers task i
TaskFetch(i) ==
    /\ taskPc[i].pc = "fetch"
    /\ ApplyStep(i, UpdateFetch(packages[i], target, taskPc[i].pname, taskPc[i].version))

\* the shell pipeline of task i returns and print writes the text of the report
TaskReport(i) ==
    /\ taskPc[i].pc = "lookup"
    /\ ApplyStep(i, UpdateReport(inventory, taskPc[i].pname, taskPc[i].version,
                                 taskPc[i].new_version))

\* print writes its end, the line feed
TaskNewline(i) ==
    /\ taskPc[i].pc = "newline"
    /\ stdout' = Append(stdout, [pkg |-> i, text |-> <<"\n">>])
    /\ taskPc' = [taskPc EXCEPT ![i].pc = "returning"]
    /\ UNCHANGED <<packages, inventory, target, future, logged, doneOrder, results,
                   mainPc, summary, resolveCall, extractCall>>

\* _update has returned, or an exception has left it, and the worker sets
\* the Future of task i
TaskReturn(i) ==
    /\ taskPc[i].pc = "returning"
    /\ future' = [future EXCEPT ![i] = taskPc[i].ret]
    /\ doneOrder' = Append(doneOrder, i)
    /\ taskPc' = [taskPc EXCEPT ![i].pc = "finished"]
    /\ UNCHANGED <<packages, inventory, target, logged, stdout, results, mainPc,
                   summary, resolveCall, extractCall>>

\* an iterator that yields results as the tasks complete
ResultIterator_AsCompleted(k) == IF k <= Len(doneOrder) THEN doneOrder[k] ELSE k

\* p.map: the k-th result comes from the k-th submitted task
ResultIterator(k) == k

\* list(p.map(...)) takes the next result
MainCollect ==
    /\ mainPc = "map"
    /\ Len(results) < N
    /\ future[ResultIterator(Len(results) + 1)].kind = "return"
    /\ results' = Append(results, future[ResultIterator(Len(results) + 1)].value)
    /\ UNCHANGED <<packages, inventory, target, taskPc, future, logged, stdout,
                   doneOrder, mainPc, summary, resolveCall, extractCall>>

\* the next result is an exception: it is raised in the iterator, whose
\* finally clause starts to cancel the futures not yet yielded
MainRaise ==
    /\ mainPc = "map"
    /\ Len(results) < N
    /\ future[ResultIterator(Len(results) + 1)].kind = "raise"
    /\ mainPc' = "cancelling"
    /\ UNCHANGED <<packages, inventory, target, taskPc, future, logged, stdout,
                   doneOrder, results, summary, resolveCall, extractCall>>

\* the tasks no worker has set running yet
PendingTasks == {i \in 1..N : taskPc[i].pc = "pending"}

\* the iterator cancels one future.  It goes through the futures not yet
\* yielded from the last to the first, one at a time, and cancel() does
\* nothing to a future that is running or done: the future it cancels next is
\* the last one still pending
MainCancel ==
    /\ mainPc = "cancelling"
    /\ PendingTasks # {}
    /\ taskPc' = [taskPc EXCEPT ![GreatestOf(PendingTasks)].pc = "cancelled"]
    /\ UNCHANGED <<packages, inventory, target, future, logged, stdout, doneOrder,
                   results, mainPc, summary, resolveCall, extractCall>>

\* the iterator has gone through all futures and the exception leaves p.map
MainLeaveMap ==
    /\ mainPc = "cancelling"
    /\ PendingTasks = {}
    /\ mainPc' = "raising"
    /\ UNCHANGED <<packages, inventory, target, taskPc, future, logged, stdout,
                   doneOrder, results, summary, resolveCall, extractCall>>

\* sum(filter(bool, results))
RECURSIVE CountTrue(_)
CountTrue(rs) ==
    IF Len(rs) = 0 THEN 0 ELSE (IF Head(rs) THEN 1 ELSE 0) + CountTrue(Tail(rs))

\* lines 278-281: all results are in; the summary is logged
MainSummary ==
    /\ mainPc = "map"
    /\ Len(results) = N
    /\ summary' = <<[checked |-> Len(results), updated |-> CountTrue(results)]>>
    /\ mainPc' = "done"
    /\ UNCHANGED <<packages, inventory, target, taskPc, future, logged, stdout,
                   doneOrder, results, resolveCall, extractCall>>

\* the pool shuts down when its running tasks have ended, and the exception
\* leaves main
MainAbort ==
    /\ mainPc = "raising"
    /\ \A i \in 1..N : taskPc[i].pc \in {"finished", "cancelled"}
    /\ mainPc' = "aborted"
    /\ UNCHANGED <<packages, inventory, target, taskPc, future, logged, stdout,
                   doneOrder, results, summary, resolveCall, extractCall>>

Next ==
    \/ \E i \in 1..N : TaskPickUp(i)
    \/ \E i \in 1..N : TaskStart(i)
    \/ \E i \in 1..N : TaskFetch(i)
    \/ \E i \in 1..N : TaskReport(i)
    \/ \E i \in 1..N : TaskNewline(i)
    \/ \E i \in 1..N : TaskReturn(i)
    \/ MainCollect
    \/ MainRaise
    \/ MainCancel
    \/ MainLeaveMap
    \/ MainSummary
    \/ MainAbort

Spec == Init /\ [][Next]_vars

---------------------------------------------------------------------------
(* Claims about the batch. *)

\* C1: every failure of a package's task is caught in _update and becomes a
\* not-updated outcome: no task ends with an exception in its future, none is
\* cancelled, and main never leaves the pool map with an exception, so that
\* the summary is always logged.
C1_FailureIsolation ==
    /\ mainPc \notin {"cancelling", "raising", "aborted"}
    /\ \A i \in 1..N : future[i].kind # "raise" /\ taskPc[i].pc # "cancelled"

\* a write to stdout that is the text of a report, not the end of a print
IsReport(w) == w.text # <<"\n">>

\* the reports written so far
Reports == SelectSeq(stdout, IsReport)

\* text.split(sep)
RECURSIVE Split(_, _)
Split(text, sep) ==
    IF \E i \in 1..Len(text) : text[i] = sep
    THEN <<SubSeq(text, 1, LeastOf({i \in 1..Len(text) : text[i] = sep}) - 1)>>
         \o Split(SubSeq(text, LeastOf({i \in 1..Len(text) : text[i] = sep}) + 1,
                         Len(text)), sep)
    ELSE <<text>>

\* the fields of a report: identifier, old version, new version, url
Field(w, n) == Split(w.text, " ")[n]

\* C2: reports are written to stdout in the order of the input packages,
\* whatever the interleaving of the tasks.
C2_ReportOrder ==
    \A a, b \in 1..Len(Reports) : a < b => Reports[a].pkg < Reports[b].pkg

\* C3: the updated number of the summary is the number of reports
\* written; no other outcome contributes to it.
C3_UpdatedCount ==
    mainPc = "done" => summary[1].updated = Len(Reports)

\* C6: every report written by _print_new_version has a new version that
\* differs from the old one and is strictly greater in version order, and a
\* package whose resolved version is lower than the declared one writes no
\* report.
C6_GenuineUpdate ==
    /\ \A k \in 1..Len(Reports) :
          /\ Len(Split(Reports[k].text, " ")) = 4
          /\ Field(Reports[k], 3) # Field(Reports[k], 2)
          /\ VersionLess(ParseVersion(Field(Reports[k], 2)),
                         ParseVersion(Field(Reports[k], 3)))
    /\ \A i \in 1..N :
          (/\ taskPc[i].new_version # <<>>
           /\ VersionLess(ParseVersion(taskPc[i].new_version),
                          ParseVersion(taskPc[i].version)))
            => \A k \in 1..Len(stdout) : stdout[k].pkg # i

\* a batch in which one package was reported and another was refused as a
\* downgrade
C6_Witness ==
    /\ mainPc = "done"
    /\ Len(Reports) >= 1
    /\ \E i \in 1..N : logged[i].msg = "downgrade"

\* C7: a resolved version equal to the declared one in version order ends the
\* package as already at the latest version, and the downgrade failure is
\* raised only for a resolved version strictly below the declared one.
C7_EqualIsNoOp ==
    \A i \in 1..N :
        (taskPc[i].pc = "finished" /\ taskPc[i].new_version # <<>>) =>
            /\ VersionEq(ParseVersion(taskPc[i].new_version),
                         ParseVersion(taskPc[i].version))
                 => logged[i].msg = "already at latest version"
            /\ logged[i].msg = "downgrade"
                 => VersionLess(ParseVersion(taskPc[i].new_version),
                                ParseVersion(taskPc[i].version))

\* C9: the list main collects holds, at each position, the value _update
\* returns for the input package at that position, and on completion it has
\* one entry per input package, whatever the order the tasks finished in.
C9_OutcomeOrder ==
    /\ \A k \in 1..Len(results) :
          /\ _update(packages[k], target, inventory).ret.kind = "return"
          /\ results[k] = _update(packages[k], target, inventory).ret.value
    /\ mainPc = "done" => Len(results) = N

\* two packages with different outcomes, the second finished first
C9_Witness ==
    /\ mainPc = "done"
    /\ doneOrder = <<2, 1>>
    /\ results[1] # results[2]

\* the first inventory line holding pname-version and no python2, 0 if none
FirstLineWith(pat) ==
    LET hits == {l \in 1..Len(inventory) :
                   Contains(pat, inventory[l]) /\ ~Contains(PYTHON2, inventory[l])}
    IN  IF hits = {} THEN 0 ELSE LeastOf(hits)

\* C10: the identifier of a report line is the first inventory line that
\* holds pname-version and no python2, with exactly the suffix -version
\* removed; without such a line the package prints nothing and does not fail.
C10_IdentifierLookup ==
    /\ \A k \in 1..Len(Reports) :
          LET t == taskPc[Reports[k].pkg]
              l == FirstLineWith(t.pname \o <<"-">> \o t.version)
          IN  /\ l # 0
              /\ inventory[l] = Field(Reports[k], 1) \o <<"-">> \o t.version
    /\ \A i \in 1..N :
          (/\ taskPc[i].pc = "finished"
           /\ taskPc[i].new_version # <<>>
           /\ logged[i].msg = ""
           /\ FirstLineWith(taskPc[i].pname \o <<"-">> \o taskPc[i].version) = 0)
            => /\ future[i].kind = "return"
               /\ \A k \in 1..Len(stdout) : stdout[k].pkg # i

====
